---- MODULE Spec2Model ----
(***************************************************************************)
(* Model of KhoHang_API/app/firestore_service.py: the record store gateway *)
(* over the remote document store.  The remote store is a map from         *)
(* collection name to documents keyed by identifier; every gateway         *)
(* function is one action that acquires the client, issues its remote      *)
(* call(s) and normalises the outcome.                                     *)
(***************************************************************************)
EXTENDS Integers, Sequences, FiniteSets, TLC

VARIABLES
    firestore,  \* TRUE iff `from google.cloud import firestore` succeeded
    store,      \* remote store: collection -> (document id -> dict)
    prev,       \* the store as it was before the last call
    call,       \* the last call: [fn, id, data, env]
    ret,        \* what the last call returned (or the exception that escaped)
    ops,        \* remote calls the last call issued, in order
    raised,     \* TRUE iff a remote call of the last call raised
    client,     \* what get_client() returned in the last call
    ncalls      \* number of calls made so far

vars == <<firestore, store, prev, call, ret, ops, raised, client, ncalls>>

\* Bound on the length of a run.
MaxCalls == 2

-----------------------------------------------------------------------------
(* Python values *)

PyNone == [t |-> "none", n |-> 0, s |-> ""]
PyInt(k) == [t |-> "int", n |-> k, s |-> ""]
PyStr(x) == [t |-> "str", n |-> 0, s |-> x]

DecimalDigit == <<"0", "1", "2", "3", "4", "5", "6", "7", "8", "9">>

\* str(v) of a value: str(None) = "None", str(1) = "1", str("a") = "a".
str(v) ==
    CASE v.t = "none" -> "None"
      [] v.t = "int" -> DecimalDigit[v.n + 1]
      [] v.t = "str" -> v.s

\* A dict is a function from a finite set of keys to values.
EmptyDict == [k \in {} |-> PyNone]

\* dict.get(k): the value, or None when the key is missing.
DictGet(d, k) == IF k \in DOMAIN d THEN d[k] ELSE PyNone

\* a | b: the keys of both, b's value where both have the key.
DictMerge(a, b) ==
    [k \in (DOMAIN a) \cup (DOMAIN b) |-> IF k \in DOMAIN b THEN b[k] ELSE a[k]]

\* Return values.
RetBool(b) == [kind |-> "bool", b |-> b, list |-> <<>>, dict |-> EmptyDict]
RetNone == [kind |-> "none", b |-> FALSE, list |-> <<>>, dict |-> EmptyDict]
RetList(l) == [kind |-> "list", b |-> FALSE, list |-> l, dict |-> EmptyDict]
RetDict(d) == [kind |-> "dict", b |-> FALSE, list |-> <<>>, dict |-> d]
RetException == [kind |-> "exception", b |-> FALSE, list |-> <<>>, dict |-> EmptyDict]

-----------------------------------------------------------------------------
(* The remote store *)

Collections == {"items", "stock_in", "stock_out", "suppliers", "warehouses"}

\* Document identifiers of the model, in the store's identifier order.
DocIdOrder == <<"1", "2", "None", "a", "b", "c", "s">>
DocIds == {DocIdOrder[i] : i \in 1..Len(DocIdOrder)}
IdIndex(d) == CHOOSE i \in 1..Len(DocIdOrder) : DocIdOrder[i] = d

NoDocs == [d \in {} |-> EmptyDict]
EmptyStore == [c \in Collections |-> NoDocs]

Op(kind, c, d) == [op |-> kind, coll |-> c, doc |-> d]

Put(docs, d, data) ==
    [x \in (DOMAIN docs) \cup {d} |-> IF x = d THEN data ELSE docs[x]]
Remove(docs, d) == [x \in (DOMAIN docs) \ {d} |-> docs[x]]

\* collection(c).document(d).set(data): replaces the document wholesale.
DocSet(st, env, c, d, data) ==
    IF env.fault
    THEN [store |-> st, raised |-> TRUE, ops |-> <<Op("set", c, d)>>]
    ELSE [store |-> [st EXCEPT ![c] = Put(@, d, data)], raised |-> FALSE,
          ops |-> <<Op("set", c, d)>>]

\* collection(c).document(d).update(data): merges the fields onto an existing
\* document, and raises NotFound when there is none.
DocUpdate(st, env, c, d, data) ==
    IF env.fault \/ d \notin DOMAIN st[c]
    THEN [store |-> st, raised |-> TRUE, ops |-> <<Op("update", c, d)>>]
    ELSE [store |-> [st EXCEPT ![c] = Put(@, d, DictMerge(@[d], data))],
          raised |-> FALSE, ops |-> <<Op("update", c, d)>>]

\* collection(c).document(d).delete(): removes the document if there is one.
DocDelete(st, env, c, d) ==
    IF env.fault
    THEN [store |-> st, raised |-> TRUE, ops |-> <<Op("delete", c, d)>>]
    ELSE [store |-> [st EXCEPT ![c] = Remove(@, d)], raised |-> FALSE,
          ops |-> <<Op("delete", c, d)>>]

Snapshot(st, c, d) ==
    IF d \in DOMAIN st[c]
    THEN [exists |-> TRUE, id |-> d, data |-> st[c][d]]
    ELSE [exists |-> FALSE, id |-> d, data |-> EmptyDict]

\* collection(c).document(d).get(): a snapshot with an existence flag.
DocGet(st, env, c, d) ==
    IF env.fault
    THEN [store |-> st, raised |-> TRUE, ops |-> <<Op("get", c, d)>>,
          doc |-> Snapshot(EmptyStore, c, d)]
    ELSE [store |-> st, raised |-> FALSE, ops |-> <<Op("get", c, d)>>,
          doc |-> Snapshot(st, c, d)]

\* Whether snapshot a comes before snapshot b in a query ordered by `field`
\* (by identifier when field is ""), in the given direction; ties on the
\* field are broken by identifier in the same direction.
Precedes(a, b, field, direction) ==
    LET ka == IF field = "" THEN 0 ELSE a.data[field].n
        kb == IF field = "" THEN 0 ELSE b.data[field].n
        ia == IdIndex(a.id)
        ib == IdIndex(b.id)
    IN  IF direction = "DESCENDING"
        THEN ka > kb \/ (ka = kb /\ ia > ib)
        ELSE ka < kb \/ (ka = kb /\ ia < ib)

RECURSIVE InOrder(_, _, _)
InOrder(S, field, direction) ==
    IF S = {} THEN <<>>
    ELSE LET first == CHOOSE a \in S :
                          \A b \in S \ {a} : Precedes(a, b, field, direction)
         IN  <<first>> \o InOrder(S \ {first}, field, direction)

\* collection(c).stream(): every document, in identifier order.
Stream(st, env, c) ==
    IF env.fault
    THEN [store |-> st, raised |-> TRUE, ops |-> <<Op("stream", c, "*")>>,
          docs |-> <<>>]
    ELSE [store |-> st, raised |-> FALSE, ops |-> <<Op("stream", c, "*")>>,
          docs |-> InOrder({Snapshot(st, c, d) : d \in DOMAIN st[c]}, "", "ASCENDING")]

\* collection(c).order_by(field, direction).stream(): the documents that hold
\* the field, ordered by it.
OrderByStream(st, env, c, field, direction) ==
    IF env.fault
    THEN [store |-> st, raised |-> TRUE, ops |-> <<Op("stream", c, "*")>>,
          docs |-> <<>>]
    ELSE [store |-> st, raised |-> FALSE, ops |-> <<Op("stream", c, "*")>>,
          docs |-> InOrder({Snapshot(st, c, d) :
                               d \in {x \in DOMAIN st[c] : field \in DOMAIN st[c][x]}},
                           field, direction)]

-----------------------------------------------------------------------------
(* The gateway *)

NoClient == "None"
Client == "Client"

\* get_client(): None when the library is missing or the constructor raises.
get_client(env) ==
    IF ~firestore THEN NoClient
    ELSE IF env.ctor_fails THEN NoClient
    ELSE Client

Outcome(st, r, o, x, cl) ==
    [store |-> st, ret |-> r, ops |-> o, raised |-> x, client |-> cl]

\* `if client is None: return <negative>`
Unavailable(st, negative) == Outcome(st, negative, <<>>, FALSE, NoClient)

\* try: <remote write>; return True / except Exception: return False
TryWrite(r) ==
    Outcome(r.store, IF r.raised THEN RetBool(FALSE) ELSE RetBool(TRUE),
            r.ops, r.raised, Client)


\* try: <remote read>; return <list> / except Exception: return []
TryList(r, l) ==
    Outcome(r.store, IF r.raised THEN RetList(<<>>) ELSE RetList(l),
            r.ops, r.raised, Client)

\* [d.to_dict() for d in docs]
ToDicts(docs) ==
    IF Len(docs) = 0 THEN <<>> ELSE [i \in 1..Len(docs) |-> docs[i].data]

\* d.to_dict() | {"id": d.id}
WithId(d) == DictMerge(d.data, "id" :> PyStr(d.id))

\* [d.to_dict() | {"id": d.id} for d in docs]
ToDictsWithId(docs) ==
    IF Len(docs) = 0 THEN <<>> ELSE [i \in 1..Len(docs) |-> WithId(docs[i])]

\* save_item writing with set(item, merge=True): fields already stored under
\* the identifier survive the save.
save_item_Merges(st, item, env) ==
    IF get_client(env) = NoClient THEN Unavailable(st, RetBool(FALSE))
    ELSE LET doc_id == str(DictGet(item, "id"))
             old == Snapshot(st, "items", doc_id).data
         IN  IF doc_id = ""
             THEN Outcome(st, RetBool(FALSE), <<>>, FALSE, Client)
             ELSE TryWrite(DocSet(st, env, "items", doc_id, DictMerge(old, item)))

save_item(st, item, env) ==
    IF get_client(env) = NoClient THEN Unavailable(st, RetBool(FALSE))
    ELSE LET doc_id == str(DictGet(item, "id"))
         IN  IF doc_id = ""
             THEN Outcome(st, RetBool(FALSE), <<>>, FALSE, Client)
             ELSE TryWrite(DocSet(st, env, "items", doc_id, item))

\* update_item without its `except`: the exception of the remote call escapes.
update_item_NoExcept(st, item_id, data, env) ==
    IF get_client(env) = NoClient THEN Unavailable(st, RetBool(FALSE))
    ELSE LET r == DocUpdate(st, env, "items", str(item_id), data)
         IN  IF r.raised THEN Outcome(r.store, RetException, r.ops, TRUE, Client)
             ELSE TryWrite(r)

\* update_item writing with set(data, merge=True): a missing document is
\* created.
update_item_Upserts(st, item_id, data, env) ==
    IF get_client(env) = NoClient THEN Unavailable(st, RetBool(FALSE))
    ELSE LET old == Snapshot(st, "items", str(item_id)).data
         IN  TryWrite(DocSet(st, env, "items", str(item_id), DictMerge(old, data)))

update_item(st, item_id, data, env) ==
    IF get_client(env) = NoClient THEN Unavailable(st, RetBool(FALSE))
    ELSE TryWrite(DocUpdate(st, env, "items", str(item_id), data))

delete_item(st, item_id, env) ==
    IF get_client(env) = NoClient THEN Unavailable(st, RetBool(FALSE))
    ELSE TryWrite(DocDelete(st, env, "items", str(item_id)))

get_all_items(st, env) ==
    IF get_client(env) = NoClient THEN Unavailable(st, RetList(<<>>))
    ELSE LET r == Stream(st, env, "items")
         IN  TryList(r, ToDicts(r.docs))

get_stock_out_records(st, env) ==
    IF get_client(env) = NoClient THEN Unavailable(st, RetList(<<>>))
    ELSE LET r == OrderByStream(st, env, "stock_out", "created_at", "DESCENDING")
         IN  TryList(r, ToDictsWithId(r.docs))

\* get_stock_out_record without the `if not doc.exists` test.
get_stock_out_record_NoExistsTest(st, record_id, env) ==
    IF get_client(env) = NoClient THEN Unavailable(st, RetNone)
    ELSE LET r == DocGet(st, env, "stock_out", record_id)
         IN  IF r.raised THEN Outcome(r.store, RetNone, r.ops, TRUE, Client)
             ELSE Outcome(r.store, RetDict(WithId(r.doc)), r.ops, FALSE, Client)

get_stock_out_record(st, record_id, env) ==
    IF get_client(env) = NoClient THEN Unavailable(st, RetNone)
    ELSE LET r == DocGet(st, env, "stock_out", record_id)
         IN  IF r.raised THEN Outcome(r.store, RetNone, r.ops, TRUE, Client)
             ELSE IF ~r.doc.exists THEN Outcome(r.store, RetNone, r.ops, FALSE, Client)
             ELSE Outcome(r.store, RetDict(WithId(r.doc)), r.ops, FALSE, Client)

\* The body ends after the client check: with a client the function falls
\* off its end, issuing nothing and returning None.
save_stock_out(st, record_id, data, env) ==
    IF get_client(env) = NoClient THEN Unavailable(st, RetBool(FALSE))
    ELSE Outcome(st, RetNone, <<>>, FALSE, Client)

save_stock_in(st, record_id, data, env) ==
    IF get_client(env) = NoClient THEN Unavailable(st, RetBool(FALSE))
    ELSE TryWrite(DocSet(st, env, "stock_in", record_id, data))

\* get_stock_in_records merging the other way round, {"id": d.id} | d.to_dict():
\* a stored `id` wins over the identifier.
get_stock_in_records_StoredIdWins(st, env) ==
    IF get_client(env) = NoClient THEN Unavailable(st, RetList(<<>>))
    ELSE LET r == OrderByStream(st, env, "stock_in", "created_at", "DESCENDING")
         IN  TryList(r, IF Len(r.docs) = 0 THEN <<>>
                        ELSE [i \in 1..Len(r.docs) |->
                                 DictMerge("id" :> PyStr(r.docs[i].id), r.docs[i].data)])

get_stock_in_records(st, env) ==
    IF get_client(env) = NoClient THEN Unavailable(st, RetList(<<>>))
    ELSE LET r == OrderByStream(st, env, "stock_in", "created_at", "DESCENDING")
         IN  TryList(r, ToDictsWithId(r.docs))

\* Both arms of the first try return, so the second try (the `set` on
\* stock_out that follows it) is never run.
delete_stock_in(st, record_id, env) ==
    IF get_client(env) = NoClient THEN Unavailable(st, RetBool(FALSE))
    ELSE TryWrite(DocDelete(st, env, "stock_in", record_id))

\* delete_stock_out reporting failure when there is no such document.
delete_stock_out_MissingIsFailure(st, record_id, env) ==
    IF get_client(env) = NoClient THEN Unavailable(st, RetBool(FALSE))
    ELSE IF record_id \notin DOMAIN st["stock_out"]
         THEN Outcome(st, RetBool(FALSE), <<Op("get", "stock_out", record_id)>>,
                      FALSE, Client)
         ELSE TryWrite(DocDelete(st, env, "stock_out", record_id))

delete_stock_out(st, record_id, env) ==
    IF get_client(env) = NoClient THEN Unavailable(st, RetBool(FALSE))
    ELSE TryWrite(DocDelete(st, env, "stock_out", record_id))

get_all_suppliers(st, env) ==
    IF get_client(env) = NoClient THEN Unavailable(st, RetList(<<>>))
    ELSE LET r == Stream(st, env, "suppliers")
         IN  TryList(r, ToDictsWithId(r.docs))

save_supplier(st, supplier_id, data, env) ==
    IF get_client(env) = NoClient THEN Unavailable(st, RetBool(FALSE))
    ELSE TryWrite(DocSet(st, env, "suppliers", str(supplier_id), data))

delete_supplier(st, supplier_id, env) ==
    IF get_client(env) = NoClient THEN Unavailable(st, RetBool(FALSE))
    ELSE TryWrite(DocDelete(st, env, "suppliers", str(supplier_id)))

\* get_all_warehouses returning None, not [], when there is no client.
get_all_warehouses_NoneWhenUnavailable(st, env) ==
    IF get_client(env) = NoClient THEN Unavailable(st, RetNone)
    ELSE LET r == Stream(st, env, "warehouses")
         IN  TryList(r, ToDictsWithId(r.docs))

get_all_warehouses(st, env) ==
    IF get_client(env) = NoClient THEN Unavailable(st, RetList(<<>>))
    ELSE LET r == Stream(st, env, "warehouses")
         IN  TryList(r, ToDictsWithId(r.docs))

save_warehouse(st, warehouse_id, data, env) ==
    IF get_client(env) = NoClient THEN Unavailable(st, RetBool(FALSE))
    ELSE TryWrite(DocSet(st, env, "warehouses", str(warehouse_id), data))

delete_warehouse(st, warehouse_id, env) ==
    IF get_client(env) = NoClient THEN Unavailable(st, RetBool(FALSE))
    ELSE TryWrite(DocDelete(st, env, "warehouses", str(warehouse_id)))

-----------------------------------------------------------------------------
(* Inputs of the calls *)

\* What a call meets: the client constructor raising, or the remote call
\* raising.
Envs ==
    { [ctor_fails |-> FALSE, fault |-> FALSE],
      [ctor_fails |-> TRUE, fault |-> FALSE],
      [ctor_fails |-> FALSE, fault |-> TRUE] }

ItemInputs ==
    { "name" :> PyStr("x"),
      ("id" :> PyNone) @@ ("name" :> PyStr("x")),
      ("id" :> PyStr("")) @@ ("name" :> PyStr("x")),
      ("id" :> PyInt(1)) @@ ("name" :> PyStr("x")),
      ("id" :> PyStr("1")) @@ ("name" :> PyStr("y")),
      "id" :> PyInt(2) }

ItemIds == {PyInt(1), PyInt(2)}
UpdateData == {"name" :> PyStr("z"), "created_at" :> PyInt(1)}

RecordIds == {"a", "b", "c"}
StockData ==
    { "created_at" :> PyInt(1),
      ("created_at" :> PyInt(2)) @@ ("id" :> PyStr("zz")),
      "created_at" :> PyInt(3),
      "name" :> PyStr("x") }

PartyIds == {PyInt(1), PyStr("s")}
PartyData ==
    { "name" :> PyStr("x"),
      ("id" :> PyStr("zz")) @@ ("name" :> PyStr("y")) }

\* A store that already holds documents: stock documents created at 1, 3
\* and 2, one of them with a stored `id` other than its identifier.
StockDocs ==
    ("a" :> ("created_at" :> PyInt(1))) @@
    ("b" :> (("created_at" :> PyInt(3)) @@ ("id" :> PyStr("zz")))) @@
    ("c" :> ("created_at" :> PyInt(2)))

PopulatedStore ==
    [c \in Collections |->
        CASE c = "items" ->
                 ("1" :> (("id" :> PyInt(1)) @@ ("name" :> PyStr("w")))) @@
                 ("2" :> (("id" :> PyInt(2)) @@ ("created_at" :> PyInt(3))))
          [] c \in {"stock_in", "stock_out"} -> StockDocs
          [] c = "suppliers" ->
                 ("s" :> (("id" :> PyStr("zz")) @@ ("name" :> PyStr("x"))))
          [] c = "warehouses" ->
                 ("1" :> ("name" :> PyStr("x"))) @@ ("s" :> ("name" :> PyStr("y")))]

InitStores == {EmptyStore, PopulatedStore}

-----------------------------------------------------------------------------
(* The state machine *)

NoCall == [fn |-> "none", id |-> PyNone, data |-> EmptyDict,
           env |-> [ctor_fails |-> FALSE, fault |-> FALSE]]

Init ==
    /\ firestore \in BOOLEAN
    /\ store \in InitStores
    /\ prev = store
    /\ call = NoCall
    /\ ret = RetNone
    /\ ops = <<>>
    /\ raised = FALSE
    /\ client = NoClient
    /\ ncalls = 0

\* One call of gateway function fn with the given arguments and outcome o.
Step(fn, id, data, env, o) ==
    /\ ncalls' = ncalls + 1
    /\ prev' = store
    /\ store' = o.store
    /\ call' = [fn |-> fn, id |-> id, data |-> data, env |-> env]
    /\ ret' = o.ret
    /\ ops' = o.ops
    /\ raised' = o.raised
    /\ client' = o.client
    /\ UNCHANGED firestore

SaveItem ==
    /\ ncalls < MaxCalls
    /\ \E item \in ItemInputs, env \in Envs :
           Step("save_item", DictGet(item, "id"), item, env, save_item(store, item, env))

UpdateItem ==
    /\ ncalls < MaxCalls
    /\ \E item_id \in ItemIds, data \in UpdateData, env \in Envs :
           Step("update_item", item_id, data, env, update_item(store, item_id, data, env))

DeleteItem ==
    /\ ncalls < MaxCalls
    /\ \E item_id \in ItemIds, env \in Envs :
           Step("delete_item", item_id, EmptyDict, env, delete_item(store, item_id, env))

GetAllItems ==
    /\ ncalls < MaxCalls
    /\ \E env \in Envs :
           Step("get_all_items", PyNone, EmptyDict, env, get_all_items(store, env))

GetStockOutRecords ==
    /\ ncalls < MaxCalls
    /\ \E env \in Envs :
           Step("get_stock_out_records", PyNone, EmptyDict, env,
                get_stock_out_records(store, env))

GetStockOutRecord ==
    /\ ncalls < MaxCalls
    /\ \E record_id \in RecordIds, env \in Envs :
           Step("get_stock_out_record", PyStr(record_id), EmptyDict, env,
                get_stock_out_record(store, record_id, env))

SaveStockOut ==
    /\ ncalls < MaxCalls
    /\ \E record_id \in RecordIds, data \in StockData, env \in Envs :
           Step("save_stock_out", PyStr(record_id), data, env,
                save_stock_out(store, record_id, data, env))

SaveStockIn ==
    /\ ncalls < MaxCalls
    /\ \E record_id \in RecordIds, data \in StockData, env \in Envs :
           Step("save_stock_in", PyStr(record_id), data, env,
                save_stock_in(store, record_id, data, env))

GetStockInRecords ==
    /\ ncalls < MaxCalls
    /\ \E env \in Envs :
           Step("get_stock_in_records", PyNone, EmptyDict, env,
                get_stock_in_records(store, env))

DeleteStockIn ==
    /\ ncalls < MaxCalls
    /\ \E record_id \in RecordIds, env \in Envs :
           Step("delete_stock_in", PyStr(record_id), EmptyDict, env,
                delete_stock_in(store, record_id, env))

DeleteStockOut ==
    /\ ncalls < MaxCalls
    /\ \E record_id \in RecordIds, env \in Envs :
           Step("delete_stock_out", PyStr(record_id), EmptyDict, env,
                delete_stock_out(store, record_id, env))

GetAllSuppliers ==
    /\ ncalls < MaxCalls
    /\ \E env \in Envs :
           Step("get_all_suppliers", PyNone, EmptyDict, env, get_all_suppliers(store, env))

SaveSupplier ==
    /\ ncalls < MaxCalls
    /\ \E supplier_id \in PartyIds, data \in PartyData, env \in Envs :
           Step("save_supplier", supplier_id, data, env,
                save_supplier(store, supplier_id, data, env))

DeleteSupplier ==
    /\ ncalls < MaxCalls
    /\ \E supplier_id \in PartyIds, env \in Envs :
           Step("delete_supplier", supplier_id, EmptyDict, env,
                delete_supplier(store, supplier_id, env))

GetAllWarehouses ==
    /\ ncalls < MaxCalls
    /\ \E env \in Envs :
           Step("get_all_warehouses", PyNone, EmptyDict, env, get_all_warehouses(store, env))

SaveWarehouse ==
    /\ ncalls < MaxCalls
    /\ \E warehouse_id \in PartyIds, data \in PartyData, env \in Envs :
           Step("save_warehouse", warehouse_id, data, env,
                save_warehouse(store, warehouse_id, data, env))

DeleteWarehouse ==
    /\ ncalls < MaxCalls
    /\ \E warehouse_id \in PartyIds, env \in Envs :
           Step("delete_warehouse", warehouse_id, EmptyDict, env,
                delete_warehouse(store, warehouse_id, env))

Next ==
    \/ SaveItem
    \/ UpdateItem
    \/ DeleteItem
    \/ GetAllItems
    \/ GetStockOutRecords
    \/ GetStockOutRecord
    \/ SaveStockOut
    \/ SaveStockIn
    \/ GetStockInRecords
    \/ DeleteStockIn
    \/ DeleteStockOut
    \/ GetAllSuppliers
    \/ SaveSupplier
    \/ DeleteSupplier
    \/ GetAllWarehouses
    \/ SaveWarehouse
    \/ DeleteWarehouse

Spec == Init /\ [][Next]_vars

-----------------------------------------------------------------------------
(* Vocabulary of the properties *)

Saves == {"save_item", "save_stock_in", "save_stock_out", "save_supplier", "save_warehouse"}
Deletes ==
    {"delete_item", "delete_stock_in", "delete_stock_out", "delete_supplier",
     "delete_warehouse"}
Mutations == Saves \cup Deletes \cup {"update_item"}
ListReads ==
    {"get_all_items", "get_stock_out_records", "get_stock_in_records",
     "get_all_suppliers", "get_all_warehouses"}
Reads == ListReads \cup {"get_stock_out_record"}

\* The collection a function is named after.
CollectionOf(fn) ==
    CASE fn \in {"save_item", "update_item", "delete_item", "get_all_items"} -> "items"
      [] fn \in {"save_stock_in", "delete_stock_in", "get_stock_in_records"} -> "stock_in"
      [] fn \in {"save_stock_out", "delete_stock_out", "get_stock_out_records",
                 "get_stock_out_record"} -> "stock_out"
      [] fn \in {"save_supplier", "delete_supplier", "get_all_suppliers"} -> "suppliers"
      [] fn \in {"save_warehouse", "delete_warehouse", "get_all_warehouses"} -> "warehouses"

\* The remote write a mutation function is named after.
KindOf(fn) ==
    CASE fn \in Saves -> "set"
      [] fn \in Deletes -> "delete"
      [] fn = "update_item" -> "update"

\* The designated negative result of a function.
Negative(fn) ==
    IF fn \in Mutations THEN RetBool(FALSE)
    ELSE IF fn = "get_stock_out_record" THEN RetNone
    ELSE RetList(<<>>)

\* The outcome of making call c on store st.
Run(c, st) ==
    CASE c.fn = "save_item" -> save_item(st, c.data, c.env)
      [] c.fn = "update_item" -> update_item(st, c.id, c.data, c.env)
      [] c.fn = "delete_item" -> delete_item(st, c.id, c.env)
      [] c.fn = "get_all_items" -> get_all_items(st, c.env)
      [] c.fn = "get_stock_out_records" -> get_stock_out_records(st, c.env)
      [] c.fn = "get_stock_out_record" -> get_stock_out_record(st, c.id.s, c.env)
      [] c.fn = "save_stock_out" -> save_stock_out(st, c.id.s, c.data, c.env)
      [] c.fn = "save_stock_in" -> save_stock_in(st, c.id.s, c.data, c.env)
      [] c.fn = "get_stock_in_records" -> get_stock_in_records(st, c.env)
      [] c.fn = "delete_stock_in" -> delete_stock_in(st, c.id.s, c.env)
      [] c.fn = "delete_stock_out" -> delete_stock_out(st, c.id.s, c.env)
      [] c.fn = "get_all_suppliers" -> get_all_suppliers(st, c.env)
      [] c.fn = "save_supplier" -> save_supplier(st, c.id, c.data, c.env)
      [] c.fn = "delete_supplier" -> delete_supplier(st, c.id, c.env)
      [] c.fn = "get_all_warehouses" -> get_all_warehouses(st, c.env)
      [] c.fn = "save_warehouse" -> save_warehouse(st, c.id, c.data, c.env)
      [] c.fn = "delete_warehouse" -> delete_warehouse(st, c.id, c.env)

Called == call.fn # "none"
\* The last call had a client: the library was there and the constructor
\* did not raise.
ClientAvailable == firestore /\ ~call.env.ctor_fails
\* The remote store failed the last call.
StoreFails == call.env.fault
\* The text form of the identifier the last call was given.
TargetDoc == str(call.id)

Elements(l) == {l[i] : i \in 1..Len(l)}

\* Document d of docs changed between two states of a collection.
Changed(before, after, d) ==
    \/ (d \in DOMAIN before) # (d \in DOMAIN after)
    \/ d \in DOMAIN before /\ d \in DOMAIN after /\ before[d] # after[d]

\* rec is the stored dict with `id` overwritten by the identifier d.
IsRecordOf(rec, stored, d) ==
    /\ DOMAIN rec = (DOMAIN stored) \cup {"id"}
    /\ rec["id"] = PyStr(d)
    /\ \A k \in (DOMAIN stored) \ {"id"} : rec[k] = stored[k]

\* l lists exactly the documents ids of docs, once each, each with its
\* identifier under `id`.
ListsWithId(l, docs, ids) ==
    /\ Len(l) = Cardinality(ids)
    /\ \A d \in ids : \E i \in 1..Len(l) : IsRecordOf(l[i], docs[d], d)

\* l is ordered by created_at, the largest first.
Descending(l) ==
    \A i, j \in 1..Len(l) :
        i < j => /\ "created_at" \in DOMAIN l[i]
                 /\ "created_at" \in DOMAIN l[j]
                 /\ l[i]["created_at"].n >= l[j]["created_at"].n

HoldingCreatedAt(docs) == {d \in DOMAIN docs : "created_at" \in DOMAIN docs[d]}

-----------------------------------------------------------------------------
(* Properties *)

\* C1: save_item of a record with no `id` field, or with `id` null, with a
\* client available, returns false and issues no remote call, so the store
\* is as it was.
C1_SaveItemWithoutIdIsRejected ==
    ( /\ call.fn = "save_item"
      /\ ClientAvailable
      /\ ("id" \notin DOMAIN call.data \/ call.data["id"] = PyNone) )
    => /\ ret = RetBool(FALSE)
       /\ ops = <<>>
       /\ store = prev

\* C2: every mutation function returns a boolean, and it is true exactly
\* when the client was available and the remote call was made and did not
\* raise.
C2_MutationReturnsBoolean ==
    call.fn \in Mutations
    => /\ ret.kind = "bool"
       /\ ret.b <=> (ClientAvailable /\ ops # <<>> /\ ~raised)

\* C3: a mutation function with a client available (save_item: given a
\* record with a non-null id of non-empty text) issues exactly one remote
\* write: the kind, the collection and the document its name and identifier
\* say.
C3_ExactlyOneNamedWrite ==
    ( /\ call.fn \in Mutations
      /\ ClientAvailable
      /\ call.fn = "save_item"
            => /\ "id" \in DOMAIN call.data
               /\ call.data["id"] # PyNone
               /\ str(call.data["id"]) # "" )
    => ops = <<Op(KindOf(call.fn), CollectionOf(call.fn), TargetDoc)>>

\* The record is stored under the text form of its id, and get_all_items
\* then returns it.
SavedAndReadBack ==
    /\ ret = RetBool(TRUE)
    /\ Snapshot(store, "items", TargetDoc) =
           [exists |-> TRUE, id |-> TargetDoc, data |-> call.data]
    /\ call.data \in Elements(get_all_items(store, call.env).ret.list)

\* C4 as stated: save_item of any record with an `id` field, with a client
\* and a store that does not fail, returns true and the record is read back
\* under the text form of its id.
C4_SaveItemRoundTripAnyId ==
    ( /\ call.fn = "save_item"
      /\ ClientAvailable
      /\ ~StoreFails
      /\ "id" \in DOMAIN call.data )
    => SavedAndReadBack

\* C4: save_item of a record whose `id` field has a non-empty text form,
\* with a client and a store that does not fail, returns true and the record
\* is read back under the text form of its id, whatever was stored there.
C4_SaveItemRoundTrip ==
    ( /\ call.fn = "save_item"
      /\ ClientAvailable
      /\ ~StoreFails
      /\ "id" \in DOMAIN call.data
      /\ str(call.data["id"]) # "" )
    => SavedAndReadBack

C4_Witness ==
    /\ call.fn = "save_item"
    /\ ClientAvailable
    /\ ~StoreFails
    /\ "id" \in DOMAIN call.data
    /\ TargetDoc \in DOMAIN prev["items"]
    /\ prev["items"][TargetDoc] # call.data
    /\ ret = RetBool(TRUE)

\* C5: when the client accessor returns absent, the function returns its
\* negative result (false, the empty list, or absent), nothing is raised, no
\* remote call is issued and the store is as it was.
C5_UnavailableClientIsNegative ==
    (Called /\ ~ClientAvailable)
    => /\ client = NoClient
       /\ ret = Negative(call.fn)
       /\ ops = <<>>
       /\ store = prev

C5_Witness ==
    /\ call.fn = "get_all_warehouses"
    /\ firestore
    /\ call.env.ctor_fails
    /\ store["warehouses"] # NoDocs
    /\ ret = RetList(<<>>)

\* C6: when the client is available and the remote call raises, nothing
\* escapes: the function returns its negative result.
C6_RemoteFailureIsNegative ==
    (Called /\ ClientAvailable /\ raised)
    => /\ ret.kind # "exception"
       /\ ret = Negative(call.fn)

C6_Witness ==
    /\ call.fn = "update_item"
    /\ ClientAvailable
    /\ StoreFails
    /\ raised
    /\ TargetDoc \in DOMAIN prev["items"]
    /\ ret = RetBool(FALSE)

\* C7: a delete_* call with a client and a store that does not fail returns
\* true; when there was no such document the store is as it was; and making
\* the same call again returns true and leaves the store as the first call
\* left it.
C7_DeleteIsIdempotent ==
    (call.fn \in Deletes /\ ClientAvailable /\ ~StoreFails)
    => /\ ret = RetBool(TRUE)
       /\ TargetDoc \notin DOMAIN prev[CollectionOf(call.fn)] => store = prev
       /\ Run(call, store).ret = RetBool(TRUE)
       /\ Run(call, store).store = store

C7_Witness ==
    /\ call.fn = "delete_stock_out"
    /\ ClientAvailable
    /\ ~StoreFails
    /\ prev["stock_out"] # NoDocs
    /\ TargetDoc \notin DOMAIN prev["stock_out"]
    /\ ret = RetBool(TRUE)

\* C8 as stated: get_stock_in_records and get_stock_out_records return the
\* documents of their collection, largest created_at first, and each record
\* they, get_all_suppliers and get_all_warehouses return has its identifier
\* under `id`.
C8_OrderedReadsListEveryDocument ==
    (call.fn \in ListReads \ {"get_all_items"} /\ ClientAvailable /\ ~StoreFails)
    => /\ ret.kind = "list"
       /\ ListsWithId(ret.list, store[CollectionOf(call.fn)],
                      DOMAIN store[CollectionOf(call.fn)])
       /\ call.fn \in {"get_stock_in_records", "get_stock_out_records"}
             => Descending(ret.list)

\* C8: get_stock_in_records and get_stock_out_records return the documents
\* of their collection that hold a created_at field, largest created_at
\* first; get_all_suppliers and get_all_warehouses return every document of
\* theirs; each record returned has its identifier under `id`, whatever `id`
\* the document stores.
C8_OrderedReadsInjectId ==
    (call.fn \in ListReads \ {"get_all_items"} /\ ClientAvailable /\ ~StoreFails)
    => LET docs == store[CollectionOf(call.fn)]
           ordered == call.fn \in {"get_stock_in_records", "get_stock_out_records"}
       IN  /\ ret.kind = "list"
           /\ ListsWithId(ret.list, docs,
                          IF ordered THEN HoldingCreatedAt(docs) ELSE DOMAIN docs)
           /\ ordered => Descending(ret.list)

C8_Witness ==
    /\ call.fn = "get_stock_out_records"
    /\ ClientAvailable
    /\ ~StoreFails
    /\ store["stock_out"] = StockDocs
    /\ Len(ret.list) = 3
    /\ [i \in 1..3 |-> ret.list[i]["created_at"].n] = <<3, 2, 1>>
    /\ [i \in 1..3 |-> ret.list[i]["id"].s] = <<"b", "c", "a">>

\* C9: get_stock_out_record leaves the store as it was; with a client and a
\* store that does not fail it returns absent when stock_out has no such
\* document, and otherwise the stored fields with `id` overwritten by the
\* identifier.
C9_GetStockOutRecord ==
    call.fn = "get_stock_out_record"
    => /\ store = prev
       /\ (ClientAvailable /\ ~StoreFails)
             => IF TargetDoc \in DOMAIN store["stock_out"]
                THEN /\ ret.kind = "dict"
                     /\ IsRecordOf(ret.dict, store["stock_out"][TargetDoc], TargetDoc)
                ELSE ret = RetNone

C9_Witness ==
    /\ call.fn = "get_stock_out_record"
    /\ ClientAvailable
    /\ ~StoreFails
    /\ TargetDoc = "b"
    /\ "b" \in DOMAIN store["stock_out"]
    /\ store["stock_out"]["b"]["id"] = PyStr("zz")
    /\ ret.kind = "dict"
    /\ ret.dict["id"] = PyStr("b")

\* C10: a call changes at most the document of its own collection and
\* identifier; documents are created only by save_* and removed only by
\* delete_*; a read changes nothing; update_item on an identifier with no
\* document returns false and creates nothing.
C10_NoSideEffects ==
    /\ \A c \in Collections :
          \A d \in (DOMAIN prev[c]) \cup (DOMAIN store[c]) :
              Changed(prev[c], store[c], d)
              => /\ call.fn \in Mutations
                 /\ c = CollectionOf(call.fn)
                 /\ d = TargetDoc
                 /\ d \notin DOMAIN prev[c] => call.fn \in Saves
                 /\ d \notin DOMAIN store[c] => call.fn \in Deletes
    /\ call.fn \in Reads => store = prev
    /\ ( /\ call.fn = "update_item"
         /\ ClientAvailable
         /\ TargetDoc \notin DOMAIN prev["items"] )
       => (ret = RetBool(FALSE) /\ store = prev)

C10_Witness ==
    /\ call.fn = "update_item"
    /\ ClientAvailable
    /\ ~StoreFails
    /\ prev["items"] # NoDocs
    /\ TargetDoc \notin DOMAIN prev["items"]
    /\ ret = RetBool(FALSE)
    /\ store = prev

====
